---- MODULE Spec2Model ----
(***************************************************************************)
(* Model of src/app.py: the Streamlit chat page of the HR data analyst     *)
(* assistant.  One script run handles one UI event; a submitted turn       *)
(* streams a response (stream_response), issues a final non-streaming      *)
(* request, parses the document, shows table / chart / text and appends    *)
(* the answer to st.session_state.chat_history.                            *)
(*                                                                         *)
(* Strings are sequences of tokens (each token stands for a substring), so *)
(* that += is \o and order, loss and duplication of text are observable.   *)
(* The script is cut at its blocking points (the three requests.post calls *)
(* and every pull of the stream_response generator); everything the script *)
(* does between two blocking points is one action.                         *)
(* validate_environment() is taken to pass (the deployment is configured). *)
(* The tool-call indicator (lines 471-477, 559) only decorates the page and *)
(* is left out, except for the exception its chunk.get can raise.          *)
(***************************************************************************)
EXTENDS Integers, Sequences, FiniteSets, TLC

VARIABLES
    chat_history,   \* st.session_state.chat_history: Seq of [role, content]
    pc,             \* where the script is blocked: idle | stream_post | streaming | fallback_post | final_post
    status,         \* how the last turn ended: none | rendered | error
    messages,       \* payload["input"] of the current turn
    full_response,  \* accumulated streamed text
    placeholder,    \* what message_placeholder shows: [kind, text]
    text_output,    \* [defined, text]: the local text_output ("defined" = it is in locals())
    csv_output,     \* the local csv_output (tabular payload of the final document)
    data,           \* the final document (response.json() of the third request)
    df,             \* the DataFrame decoded by pd.read_csv
    tableShown,     \* st.dataframe(df) has run
    chart,          \* value returned by generate_chart(df)
    chartShown,     \* st.plotly_chart(chart) has run
    chart_type,     \* the chart_type argument of generate_chart
    uiFailure,      \* which plotting / display call raised in this turn, if any
    inflight,       \* number of requests.post calls the script is blocked in
    streamOpen,     \* a streamed (stream=True) response is received and not yet closed
    requests_sent,  \* requests issued for the current turn
    failed,         \* the requests of the current turn that failed, in order
    increments,     \* the delta content increments the generator has yielded, in arrival order
    pulled,         \* fragments pulled from the stream in the current turn
    regenBase       \* transcript at the moment Regenerate was pressed (NoBase otherwise)

vars == <<chat_history, pc, status, messages, full_response, placeholder,
          text_output, csv_output, data, df, tableShown, chart, chartShown, chart_type,
          uiFailure,
          inflight, streamOpen, requests_sent, failed, increments, pulled, regenBase>>

(***************************************************************************)
(* Bounds of the model                                                     *)
(***************************************************************************)
MaxFragments == 2      \* fragments one stream delivers at most
MaxHistory == 3        \* transcript entries after which no new turn is started

(***************************************************************************)
(* Program constants                                                       *)
(***************************************************************************)
BarMaxRows == 20       \* generate_chart: bar chart only if len(df) <= 20
LineMaxRows == 50      \* generate_chart: line chart only if len(df) <= 50
ScatterMinNumeric == 2 \* generate_chart: scatter needs >= 2 numeric columns
MinColumns == 2        \* generate_chart: fewer columns -> no chart
HistoryWindow == 10    \* chat_history[-10:]

SystemPrompt == "You are an expert HR data analyst."

(***************************************************************************)
(* Inputs                                                                  *)
(***************************************************************************)
UserInputs == {"q1", "q2"}
Increments == {<<"Hel">>, <<"lo">>}
TransportErrors == {"ConnectionError", "HTTPError", "Timeout"}

NoContent == <<"<no content key>">>

\* One parsed line of the streamed body (a dict).
\*   error:   "" or the value under the "error" key
\*   choices: "absent" | "empty" ("choices": []) | "delta"
\*   content: NoContent or the delta's "content" increment
\*   finish:  chunk.get("finish_reason") is truthy
Chunk(e, ch, c, f) ==
    [error |-> e, choices |-> ch, content |-> c, finish |-> f]

StreamChunks ==
    {Chunk("", "delta", c, f) : c \in Increments, f \in BOOLEAN}
    \cup {Chunk("rate limited", "absent", NoContent, FALSE),
          Chunk("", "empty", NoContent, FALSE)}

\* The chunk the fallback branch yields: the whole non-streaming document.
\* A JSON object has none of the keys the loop looks at; a JSON array has no .get.
FallbackBodies == {"object", "array"}

(***************************************************************************)
(* Tabular payloads and pd.read_csv                                        *)
(***************************************************************************)
MaxCols == 3           \* columns a sample payload has at most

\* The value of item.get("output"):
\*   kind "none"  : None (the key is missing)
\*   kind "empty" : the empty string
\*   kind "text"  : a non-empty string; wellformed = pd.read_csv parses it;
\*                  rows = data lines after the header; cols = per column what
\*                  its cells hold ("int" or "text")
Payload(k, w, r, c) == [kind |-> k, wellformed |-> w, rows |-> r, cols |-> c]

NoCsv == Payload("none", FALSE, 0, <<>>)
EmptyCsv == Payload("empty", FALSE, 0, <<>>)
MalformedCsv == Payload("text", FALSE, 2, <<"int", "int">>)

CellKinds == {"int", "text"}
RowCounts == {0, 1, BarMaxRows, BarMaxRows + 1, LineMaxRows, LineMaxRows + 1}
ColumnLists == UNION {[1..n -> CellKinds] : n \in 1..MaxCols}

\* every payload pd.read_csv parses, up to MaxCols columns
CsvTexts == {Payload("text", TRUE, r, c) : r \in RowCounts, c \in ColumnLists}

\* the payloads the turn model feeds through the final document
BarCsv == Payload("text", TRUE, 1, <<"text", "int">>)
TurnPayloads == {NoCsv, EmptyCsv, MalformedCsv, BarCsv}

\* `if csv_output:` - None and "" are falsy
Truthy(p) == p.kind = "text"

NoTable == [rows |-> 0, dtypes |-> <<>>]

\* pd.read_csv(StringIO(csv_output)) on a payload it parses: a column is numeric
\* when it has at least one row and its cells are numbers; a header-only
\* payload gives object columns.
read_csv(p) ==
    [rows |-> p.rows,
     dtypes |-> [i \in 1..Len(p.cols) |->
                    IF p.rows > 0 /\ p.cols[i] = "int" THEN "number" ELSE "object"]]

(***************************************************************************)
(* generate_chart                                                          *)
(***************************************************************************)
ChartTypes == {"auto", "bar", "line", "scatter"}

\* A figure: its kind and the (1-based) positions in df.columns of x and y.
Figure(t, x, y) == [type |-> t, x |-> x, y |-> y]
NoChart == Figure("none", 0, 0)

RECURSIVE NumericFrom(_, _)
\* df.select_dtypes(include=['number']).columns, as positions, in column order
NumericFrom(d, i) ==
    IF i > Len(d.dtypes) THEN <<>>
    ELSE IF d.dtypes[i] = "number" THEN <<i>> \o NumericFrom(d, i + 1)
         ELSE NumericFrom(d, i + 1)

numeric_cols(d) == NumericFrom(d, 1)

\* df.empty: some axis has length 0
empty(d) == d.rows = 0 \/ Len(d.dtypes) = 0

\* chart_type after the "auto" resolution
AutoType(d, ctype) ==
    IF ctype = "auto"
    THEN IF Len(numeric_cols(d)) = 1 THEN "bar" ELSE "scatter"
    ELSE ctype

\* a variant of BarAllowed that excludes the limit itself
BarAllowedStrict(d) == d.rows < BarMaxRows

\* the row limit of the bar branch: len(df) <= 20
BarAllowed(d) == d.rows <= BarMaxRows

\* generate_chart(df, chart_type); raises = the plotly call inside the try raises
generate_chart(d, ctype, raises) ==
    IF empty(d) \/ Len(d.dtypes) < MinColumns THEN NoChart
    ELSE IF Len(numeric_cols(d)) = 0 THEN NoChart
    ELSE LET num == numeric_cols(d)
             t == AutoType(d, ctype)
         IN  IF t = "bar" /\ BarAllowed(d)
             THEN IF raises THEN NoChart ELSE Figure("bar", 1, num[1])
             ELSE IF t = "line" /\ d.rows <= LineMaxRows
             THEN IF raises THEN NoChart ELSE Figure("line", 1, num[1])
             ELSE IF t = "scatter" /\ Len(num) >= ScatterMinNumeric
             THEN IF raises THEN NoChart ELSE Figure("scatter", num[1], num[2])
             ELSE NoChart

(***************************************************************************)
(* The final document and its parse                                        *)
(***************************************************************************)
T1 == <<"T1">>
T2 == <<"T2">>

Entry(t, x) == [type |-> t, text |-> x]
Item(t, p, c) == [type |-> t, output |-> p, content |-> c]

Msg(c) == Item("message", NoCsv, c)
Fco(p) == Item("function_call_output", p, <<>>)
NoTypeItem == Item("<no type key>", NoCsv, <<>>)
OtherItem == Item("reasoning", NoCsv, <<>>)

ContentLists ==
    {<<Entry("output_text", T1)>>,
     <<Entry("output_text", T1), Entry("output_text", T2)>>,
     <<Entry("refusal", T2)>>}

OutputLists ==
    {<<>>, <<NoTypeItem>>, <<OtherItem>>}
    \cup {<<Msg(c)>> : c \in ContentLists}
    \cup {<<Fco(p), Msg(<<Entry("output_text", T1)>>)>> : p \in TurnPayloads}
    \cup {<<Msg(<<Entry("output_text", T1)>>), NoTypeItem>>,
          <<Fco(BarCsv), NoTypeItem>>}

\* body: "object" (a JSON object; a missing "output" key is output = <<>>)
\*       "array"  (a JSON array: data.get raises AttributeError)
Doc(b, o) == [body |-> b, output |-> o]
NoDoc == Doc("none", <<>>)
Docs == {Doc("object", o) : o \in OutputLists} \cup {Doc("array", <<>>)}

RECURSIVE ScanContent(_, _)
\* for content in item["content"]: if content["type"] == "output_text": text_output = content["text"]
ScanContent(entries, text) ==
    IF entries = <<>> THEN text
    ELSE ScanContent(Tail(entries),
                     IF Head(entries).type = "output_text"
                     THEN Head(entries).text ELSE text)

RECURSIVE ScanOutput(_, _)
\* for item in data.get("output", []): ...   acc = [raised, text, csv]
ScanOutput(items, acc) ==
    IF items = <<>> THEN acc
    ELSE LET it == Head(items) IN
         IF it.type = "<no type key>"
         THEN [acc EXCEPT !.raised = TRUE]                     \* KeyError
         ELSE IF it.type = "function_call_output"
         THEN ScanOutput(Tail(items), [acc EXCEPT !.csv = it.output])
         ELSE IF it.type = "message"
         THEN ScanOutput(Tail(items),
                         [acc EXCEPT !.text = ScanContent(it.content, acc.text)])
         ELSE ScanOutput(Tail(items), acc)

\* lines 503-512: text_output = full_response; csv_output = None; the loop
ParseDocument(doc, full) ==
    IF doc.body # "object"
    THEN [raised |-> TRUE, text |-> full, csv |-> NoCsv]       \* AttributeError
    ELSE ScanOutput(doc.output, [raised |-> FALSE, text |-> full, csv |-> NoCsv])

\* line 553: text_output gets the "Data Summary" heading and the raw payload
\* in a code fence appended
DataSummary(p) == <<"[Data Summary:]", "[fence]", ToString(p), "[fence]">>

\* which call raises while the table is presented (at most one per turn):
\*   build        - the px.bar / px.line / px.scatter call inside generate_chart
\*   plotly_chart - st.plotly_chart(chart)
\*   export       - one of the export widgets after the chart (to_csv, to_json, download_button)
UiFailures == {"none", "build", "plotly_chart", "export"}

\* lines 515-553: the `if csv_output:` block.  text is text_output after the
\* parse loop; the result is what the block leaves behind.
DecodeAndDisplay(text, csv, fail) ==
    IF ~Truthy(csv)
    THEN [text |-> text, df |-> NoTable, tableShown |-> FALSE, chart |-> NoChart,
          chartShown |-> FALSE, uiFailure |-> "none"]
    ELSE IF ~csv.wellformed
    THEN [text |-> text \o DataSummary(csv), df |-> NoTable, tableShown |-> FALSE,
          chart |-> NoChart, chartShown |-> FALSE, uiFailure |-> "none"]
    ELSE LET d == read_csv(csv)
             wanted == generate_chart(d, "auto", FALSE)
             ch == generate_chart(d, "auto", fail = "build")
             hit == IF fail = "build" /\ wanted # NoChart THEN "build"
                    ELSE IF fail = "plotly_chart" /\ ch # NoChart THEN "plotly_chart"
                    ELSE IF fail = "export" THEN "export"
                    ELSE "none"
             escaped == hit \in {"plotly_chart", "export"}    \* reaches `except Exception`
         IN  [text |-> IF escaped THEN text \o DataSummary(csv) ELSE text,
              df |-> d, tableShown |-> TRUE, chart |-> ch,
              chartShown |-> (ch # NoChart /\ hit # "plotly_chart"),
              uiFailure |-> hit]

(***************************************************************************)
(* Transcript, payload, display                                            *)
(***************************************************************************)
Message(r, c) == [role |-> r, content |-> c]
NoBase == <<Message("<not regenerating>", <<>>)>>

Last(s) == s[Len(s)]
Pop(s) == SubSeq(s, 1, Len(s) - 1)

\* s[-n:]
Recent(s, n) == IF Len(s) <= n THEN s ELSE SubSeq(s, Len(s) - n + 1, Len(s))

IsUser(m) == m.role = "user"

\* lines 430-440: the system message, the user messages of chat_history[-10:]
\* (chat_history already holds the current one), then the current message
BuildMessages(hist, user_input) ==
    <<Message("system", <<SystemPrompt>>)>>
    \o SelectSeq(Recent(hist, HistoryWindow), IsUser)
    \o <<Message("user", user_input)>>

Show(k, t) == [kind |-> k, text |-> t]
Blank == Show("blank", <<>>)

\* a variant of ErrorText that leaves the failure's text out
ErrorTextFixed(e) == <<"Error: ">>

\* message_placeholder.error(f"... Error: {chunk['error']}")
ErrorText(e) == <<"Error: ", e>>
\* message_placeholder.error(f"... Sorry, something went wrong: {str(e)}")
SorryText(e) == <<"Sorry, something went wrong: ", e>>

Undefined == [defined |-> FALSE, text |-> <<>>]
Defined(t) == [defined |-> TRUE, text |-> t]

\* a variant of Accumulate that puts the new increment in front
AccumulatePrepended(full, content) == content \o full

\* full_response += delta["content"]
Accumulate(full, content) == full \o content

(***************************************************************************)
(* Initial state: a fresh session                                          *)
(***************************************************************************)
TurnLocalsReset ==
    /\ full_response' = <<>>
    /\ text_output' = Undefined
    /\ csv_output' = NoCsv
    /\ data' = NoDoc
    /\ df' = NoTable
    /\ tableShown' = FALSE
    /\ chart' = NoChart
    /\ chartShown' = FALSE
    /\ uiFailure' = "none"
    /\ failed' = <<>>
    /\ increments' = <<>>
    /\ pulled' = 0

Init ==
    /\ chat_history = <<>>
    /\ pc = "idle"
    /\ status = "none"
    /\ messages = <<>>
    /\ full_response = <<>>
    /\ placeholder = Blank
    /\ text_output = Undefined
    /\ csv_output = NoCsv
    /\ data = NoDoc
    /\ df = NoTable
    /\ tableShown = FALSE
    /\ chart = NoChart
    /\ chartShown = FALSE
    /\ chart_type = "auto"
    /\ uiFailure = "none"
    /\ inflight = 0
    /\ streamOpen = FALSE
    /\ requests_sent = 0
    /\ failed = <<>>
    /\ increments = <<>>
    /\ pulled = 0
    /\ regenBase = NoBase

(***************************************************************************)
(* UI events (pc = "idle": no script run is in progress)                   *)
(***************************************************************************)
\* lines 407-458: the script from `if user_input:` up to the first
\* requests.post inside stream_response, where it blocks
BeginTurn(hist, user_input, base) ==
    /\ chat_history' = Append(hist, Message("user", user_input))
    /\ messages' = BuildMessages(Append(hist, Message("user", user_input)), user_input)
    /\ placeholder' = Show("typing", <<>>)
    /\ TurnLocalsReset
    /\ status' = "none"
    /\ pc' = "stream_post"
    /\ inflight' = inflight + 1
    /\ requests_sent' = 1
    /\ regenBase' = base
    /\ UNCHANGED <<chart_type, streamOpen>>

\* st.chat_input / an example query button
Submit(u) ==
    /\ pc = "idle"
    /\ Len(chat_history) + 2 <= MaxHistory
    /\ BeginTurn(chat_history, <<u>>, NoBase)

\* lines 388-394 and the rerun they trigger
Regenerate ==
    /\ pc = "idle"
    /\ chat_history # <<>>
    /\ Last(chat_history).role = "assistant"       \* the button is drawn on the last assistant message
    /\ Len(chat_history) + 1 <= MaxHistory
    /\ LET h == IF Last(chat_history).role = "assistant"
                THEN Pop(chat_history) ELSE chat_history
       IN  IF h # <<>> /\ Last(h).role = "user"
           THEN BeginTurn(h, Last(h).content, chat_history)
           ELSE /\ chat_history' = h
                /\ placeholder' = Blank
                /\ TurnLocalsReset
                /\ status' = "none"
                /\ regenBase' = NoBase
                /\ UNCHANGED <<pc, messages, chart_type, inflight, streamOpen, requests_sent>>

\* lines 301-304: the Clear button and its rerun
Clear ==
    /\ pc = "idle"
    /\ chat_history' = <<>>
    /\ placeholder' = Blank
    /\ TurnLocalsReset
    /\ status' = "none"
    /\ regenBase' = NoBase
    /\ UNCHANGED <<pc, messages, chart_type, inflight, streamOpen, requests_sent>>

(***************************************************************************)
(* stream_response and the loop that consumes it                           *)
(***************************************************************************)
\* message_placeholder.error(...); st.stop(): the script run ends here
\* (st.stop raises a control exception that `except Exception` does not catch)
Stop(text) ==
    /\ placeholder' = Show("error", text)
    /\ pc' = "idle"
    /\ status' = "error"

\* lines 490-498: the script reaches the final non-streaming requests.post
BeginFinal ==
    /\ pc' = "final_post"
    /\ inflight' = inflight + 1
    /\ requests_sent' = requests_sent + 1

\* The generator (and the Response its frame holds) is dropped without
\* response.close(): whether the connection is closed at once is up to the
\* interpreter's garbage collection.
Abandon(closed) == streamOpen' = (streamOpen /\ ~closed)

\* a dropped streamed response is finalized later
Finalize ==
    /\ pc \in {"idle", "stream_post", "final_post"}
    /\ streamOpen
    /\ streamOpen' = FALSE
    /\ UNCHANGED <<chat_history, pc, status, messages, full_response, placeholder, text_output, csv_output, data, df, tableShown, chart,
                   chartShown, chart_type, uiFailure, inflight, requests_sent, failed,
                   increments, pulled, regenBase>>

\* lines 228-235 succeed: status 2xx, headers received, body still to come
StreamPostOk ==
    /\ pc = "stream_post"
    /\ pc' = "streaming"
    /\ inflight' = inflight - 1
    /\ streamOpen' = TRUE
    /\ UNCHANGED <<chat_history, status, messages, full_response, placeholder, text_output, csv_output, data, df, tableShown, chart,
                   chartShown, chart_type, uiFailure, requests_sent, failed,
                   increments, pulled, regenBase>>

\* the streamed response stays open after the failure e of lines 228-235:
\* raise_for_status() raises on a response whose body was never read or closed
LeftOpenBy(e) == e = "HTTPError"

\* lines 228-235 raise, `except Exception` (244) issues the fallback request (247)
StreamPostFail(e) ==
    /\ pc = "stream_post"
    /\ failed' = Append(failed, "stream")
    /\ streamOpen' = (streamOpen \/ LeftOpenBy(e))
    /\ pc' = "fallback_post"
    /\ inflight' = (inflight - 1) + 1
    /\ requests_sent' = requests_sent + 1
    /\ UNCHANGED <<chat_history, status, messages, full_response, placeholder, text_output, csv_output, data, df, tableShown, chart,
                   chartShown, chart_type, uiFailure, increments, pulled, regenBase>>

HasContent(c) == c.choices = "delta" /\ c.content # NoContent

\* what message_placeholder shows after the loop body handled a chunk
Reflect(shown, full, c) == IF HasContent(c) THEN Show("stream", full) ELSE shown

\* The generator yields one parsed line (241) and the loop body (459-481) runs.
StreamChunk(c) ==
    /\ pc = "streaming"
    /\ pulled < MaxFragments
    /\ pulled' = pulled + 1
    /\ increments' = IF HasContent(c) THEN Append(increments, c.content) ELSE increments
    /\ IF c.error # ""
       THEN /\ Stop(ErrorText(c.error))                          \* 459-461
            /\ \E closed \in BOOLEAN : Abandon(closed)
            /\ UNCHANGED <<full_response, inflight, requests_sent>>
       ELSE IF c.choices = "empty"
       THEN /\ Stop(SorryText("IndexError"))                     \* 465 raises, 483-485
            /\ \E closed \in BOOLEAN : Abandon(closed)
            /\ UNCHANGED <<full_response, inflight, requests_sent>>
       ELSE /\ full_response' = IF HasContent(c)
                                THEN Accumulate(full_response, c.content)
                                ELSE full_response
            /\ placeholder' = Reflect(placeholder, full_response', c)
            /\ status' = status
            /\ IF c.finish
               THEN /\ BeginFinal                                \* break (480-481)
                    /\ \E closed \in BOOLEAN : Abandon(closed)
               ELSE UNCHANGED <<pc, inflight, requests_sent, streamOpen>>
    /\ UNCHANGED <<chat_history, messages, text_output, csv_output, data, df, tableShown,
                   chart, chartShown, chart_type, uiFailure, failed, regenBase>>

\* iter_lines is exhausted: the body is consumed and the connection released,
\* the generator returns, the loop ends and the script goes on to line 488
StreamEnd ==
    /\ pc = "streaming"
    /\ streamOpen' = FALSE
    /\ BeginFinal
    /\ UNCHANGED <<chat_history, status, messages, full_response, placeholder, text_output, csv_output, data, df, tableShown, chart,
                   chartShown, chart_type, uiFailure, failed, increments, pulled, regenBase>>

\* iter_lines raises (the connection broke; the transport closes it):
\* `except Exception` (244) issues the fallback request (247)
StreamFail ==
    /\ pc = "streaming"
    /\ failed' = Append(failed, "stream")
    /\ streamOpen' = FALSE
    /\ pc' = "fallback_post"
    /\ inflight' = inflight + 1
    /\ requests_sent' = requests_sent + 1
    /\ UNCHANGED <<chat_history, status, messages, full_response, placeholder, text_output, csv_output, data, df, tableShown, chart,
                   chartShown, chart_type, uiFailure, increments, pulled, regenBase>>

\* lines 247-255 succeed: the whole document is yielded as one chunk, the loop
\* body runs on it, the generator returns and the script goes on to line 488
FallbackOk(body) ==
    /\ pc = "fallback_post"
    /\ \E closed \in BOOLEAN : Abandon(closed)
    /\ IF body = "array"
       THEN /\ Stop(SorryText("AttributeError"))                 \* chunk.get (471), 483-485
            /\ inflight' = inflight - 1
            /\ UNCHANGED requests_sent
       ELSE /\ pc' = "final_post"
            /\ inflight' = (inflight - 1) + 1
            /\ requests_sent' = requests_sent + 1
            /\ UNCHANGED <<placeholder, status>>
    /\ UNCHANGED <<chat_history, messages, full_response, text_output,
                   csv_output, data, df, tableShown, chart, chartShown, chart_type,
                   uiFailure, failed, increments, pulled, regenBase>>

\* lines 247-253 raise: {"error": str(fallback_error)} is yielded (257) and the
\* loop body shows it and stops the script (459-461)
FallbackFail(e) ==
    /\ pc = "fallback_post"
    /\ failed' = Append(failed, "fallback")
    /\ inflight' = inflight - 1
    /\ Stop(ErrorText(e))
    /\ \E closed \in BOOLEAN : Abandon(closed)
    /\ UNCHANGED <<chat_history, messages, full_response, text_output,
                   csv_output, data, df, tableShown, chart, chartShown, chart_type,
                   uiFailure, requests_sent, increments, pulled, regenBase>>

(***************************************************************************)
(* The final request, the parse and the presentation                       *)
(***************************************************************************)
\* line 568: text_output if 'text_output' in locals() else full_response
Answer(t, full) == IF t.defined THEN t.text ELSE full

\* lines 565-570
AppendAnswer(hist, t, full) == Append(hist, Message("assistant", Answer(t, full)))

\* lines 493-570 when the request succeeds and response.json() is doc
FinalOk(doc, fail) ==
    /\ pc = "final_post"
    /\ inflight' = inflight - 1
    /\ data' = doc
    /\ LET p == ParseDocument(doc, full_response) IN
       IF p.raised
       THEN \* outer `except Exception` (561-563)
            /\ text_output' = Defined(p.text)
            /\ csv_output' = p.csv
            /\ placeholder' = Show("final", full_response)
            /\ UNCHANGED <<df, tableShown, chart, chartShown, uiFailure>>
       ELSE LET r == DecodeAndDisplay(p.text, p.csv, fail) IN
            /\ text_output' = Defined(r.text)
            /\ csv_output' = p.csv
            /\ df' = r.df
            /\ tableShown' = r.tableShown
            /\ chart' = r.chart
            /\ chartShown' = r.chartShown
            /\ uiFailure' = r.uiFailure
            /\ placeholder' = Show("final", r.text)                 \* 556
    /\ chat_history' = AppendAnswer(chat_history, text_output', full_response)
    /\ pc' = "idle"
    /\ status' = "rendered"
    /\ UNCHANGED <<messages, full_response, chart_type, streamOpen,
                   requests_sent, failed, increments, pulled, regenBase>>

\* lines 493-500 raise (network error, non-2xx, timeout, body not JSON):
\* outer `except Exception` (561-563), then the append (565-570)
FinalFail ==
    /\ pc = "final_post"
    /\ inflight' = inflight - 1
    /\ failed' = Append(failed, "final")
    /\ placeholder' = Show("final", full_response)
    /\ chat_history' = AppendAnswer(chat_history, text_output, full_response)
    /\ pc' = "idle"
    /\ status' = "rendered"
    /\ UNCHANGED <<messages, full_response, text_output, csv_output, data,
                   df, tableShown, chart, chartShown, chart_type, uiFailure, streamOpen,
                   requests_sent, increments, pulled, regenBase>>

Next ==
    \/ \E u \in UserInputs : Submit(u)
    \/ Regenerate
    \/ Clear
    \/ Finalize
    \/ StreamPostOk
    \/ \E e \in TransportErrors : StreamPostFail(e)
    \/ \E c \in StreamChunks : StreamChunk(c)
    \/ StreamEnd
    \/ StreamFail
    \/ \E body \in FallbackBodies : FallbackOk(body)
    \/ \E e \in TransportErrors : FallbackFail(e)
    \/ \E doc \in Docs, fail \in UiFailures : FinalOk(doc, fail)
    \/ FinalFail

Spec == Init /\ [][Next]_vars

(***************************************************************************)
(* generate_chart on its own: every decoded table, every chart_type        *)
(***************************************************************************)
InitChart ==
    /\ chat_history = <<>>
    /\ pc = "generate_chart"
    /\ status = "none"
    /\ messages = <<>>
    /\ full_response = <<>>
    /\ placeholder = Blank
    /\ text_output = Undefined
    /\ csv_output \in CsvTexts
    /\ data = NoDoc
    /\ df = read_csv(csv_output)
    /\ tableShown = FALSE
    /\ chart = NoChart
    /\ chartShown = FALSE
    /\ chart_type \in ChartTypes
    /\ uiFailure = "none"
    /\ inflight = 0
    /\ streamOpen = FALSE
    /\ requests_sent = 0
    /\ failed = <<>>
    /\ increments = <<>>
    /\ pulled = 0
    /\ regenBase = NoBase

\* chart = generate_chart(df, chart_type)
CallGenerateChart(raises) ==
    /\ pc = "generate_chart"
    /\ chart' = generate_chart(df, chart_type, raises)
    /\ uiFailure' = IF raises /\ generate_chart(df, chart_type, FALSE) # NoChart
                    THEN "build" ELSE "none"
    /\ pc' = "chart_returned"
    /\ UNCHANGED <<chat_history, status, messages, full_response, placeholder, text_output, csv_output, data, df, tableShown,
                   chartShown, chart_type, inflight, streamOpen, requests_sent, failed,
                   increments, pulled, regenBase>>

NextChart == \E raises \in BOOLEAN : CallGenerateChart(raises)

SpecChart == InitChart /\ [][NextChart]_vars

(***************************************************************************)
(* Properties                                                              *)
(***************************************************************************)
RECURSIVE Concat(_)
\* the concatenation of a sequence of strings
Concat(ss) == IF ss = <<>> THEN <<>> ELSE Head(ss) \o Concat(Tail(ss))

TurnDone == pc = "idle" /\ status = "rendered"
Recorded == Last(chat_history).content

\* C1: while a stream is consumed the accumulated text is the concatenation,
\* in arrival order, of the content increments received so far, and whenever
\* the loop is about to pull the next fragment the placeholder already shows
\* all of that text.
C1_StreamingConcatenation ==
    /\ full_response = Concat(increments)
    /\ pc = "streaming" =>
          placeholder = IF increments = <<>> THEN Show("typing", <<>>)
                        ELSE Show("stream", Concat(increments))

C1_Witness ==
    /\ pc = "streaming"
    /\ increments = <<<<"Hel">>, <<"lo">>>>
    /\ full_response = <<"Hel", "lo">>
    /\ placeholder = Show("stream", <<"Hel", "lo">>)

\* stream_response gave up: its fallback request failed and it yielded the error chunk
TransportSignalledFailure == failed # <<>> /\ Last(failed) = "fallback"

\* C2: if the transport signals failure after fragments have delivered content
\* increments, the turn is finalized with the partial text: that text is what
\* is shown and what is recorded as the answer.
C2_PartialTextFinalized ==
    (pc = "idle" /\ TransportSignalledFailure /\ increments # <<>>) =>
        /\ status = "rendered"
        /\ placeholder = Show("final", Concat(increments))
        /\ Last(chat_history) = Message("assistant", Concat(increments))

RawFallbackShown ==
    /\ Truthy(csv_output)
    /\ Len(placeholder.text) >= Len(DataSummary(csv_output))
    /\ SubSeq(placeholder.text,
              Len(placeholder.text) - Len(DataSummary(csv_output)) + 1,
              Len(placeholder.text)) = DataSummary(csv_output)

\* C4: in a completed turn whose response carried a tabular payload exactly
\* one of the decoded table and the raw-payload fallback text is produced;
\* without a payload neither is.
C4_TableXorRawFallback ==
    (TurnDone /\ data # NoDoc) =>
        IF Truthy(csv_output)
        THEN tableShown # RawFallbackShown
        ELSE ~tableShown /\ ~RawFallbackShown

\* the document matches none of the shapes the parse recognizes
Unrecognized(doc) ==
    \/ doc.body # "object"
    \/ \A i \in 1..Len(doc.output) :
          doc.output[i].type \notin {"message", "function_call_output"}

\* the response body as text
RawBody(doc) == <<ToString(doc)>>

\* C5: for a document of no recognized shape (and no text streamed before it)
\* the answer text is non-empty: the raw body as text, or the placeholder
\* "No content returned.".
C5_UnrecognizedShapeGivesText ==
    (TurnDone /\ data # NoDoc /\ Unrecognized(data) /\ increments = <<>>) =>
        /\ Recorded # <<>>
        /\ Recorded \in {RawBody(data), <<"No content returned.">>}

RECURSIVE FirstOutputText(_)
\* the texts of the output_text entries of the message elements, in document order
FirstOutputText(items) ==
    IF items = <<>> THEN <<>>
    ELSE LET it == Head(items)
             own == IF it.type = "message"
                    THEN SelectSeq(it.content, LAMBDA c : c.type = "output_text")
                    ELSE <<>>
         IN  [i \in 1..Len(own) |-> own[i].text] \o FirstOutputText(Tail(items))

\* C6: for a document with an output list the answer text is the text of the
\* first output_text entry found in a message element.
C6_FirstOutputTextWins ==
    (TurnDone /\ data.body = "object" /\ FirstOutputText(data.output) # <<>>
        /\ ~RawFallbackShown) =>
        Recorded = Head(FirstOutputText(data.output))

\* the positions of the numeric columns of a table
NumericPositions(d) == {i \in 1..Len(d.dtypes) : d.dtypes[i] = "number"}
Least(S) == CHOOSE i \in S : \A j \in S : i <= j

\* the chart the selection rule of the specification gives for a table
SelectedChart(d) ==
    LET N == NumericPositions(d) IN
    IF Len(d.dtypes) < 2 \/ N = {} THEN NoChart
    ELSE IF Cardinality(N) = 1
         THEN IF d.rows <= 20 THEN Figure("bar", 1, Least(N)) ELSE NoChart
         ELSE Figure("scatter", Least(N), Least(N \ {Least(N)}))

\* C7: in automatic mode, for every decoded table, generate_chart returns no
\* chart for fewer than 2 columns or no numeric column, with one numeric
\* column a bar chart of (first column, numeric column) exactly when the table
\* has at most 20 rows, with two or more a scatter chart of the first two
\* numeric columns whatever the row count; never a line chart.  (A plotting
\* call that raises is the subject of C8.)
C7_AutoChartSelection ==
    (pc = "chart_returned" /\ chart_type = "auto" /\ uiFailure = "none") =>
        /\ chart = SelectedChart(df)
        /\ chart.type # "line"

C7_Witness ==
    /\ pc = "chart_returned" /\ chart_type = "auto" /\ uiFailure = "none"
    /\ df.rows = 20
    /\ df.dtypes = <<"object", "number">>
    /\ chart = Figure("bar", 1, 2)

\* C8: a failure while building or displaying the chart leaves the turn as
\* it would be without a chart: it completes, no chart is shown, the table is
\* shown and the narrative is the text the parse produced, nothing added.
C8_ChartFailureSwallowed ==
    (TurnDone /\ uiFailure \in {"build", "plotly_chart"}) =>
        /\ ~chartShown
        /\ tableShown /\ df = read_csv(csv_output)
        /\ placeholder = Show("final", ParseDocument(data, full_response).text)
        /\ Recorded = ParseDocument(data, full_response).text

\* requests of the conversation that are open: the one the script is blocked
\* in, and a streamed response that was received and never closed
OpenRequests == inflight + (IF streamOpen THEN 1 ELSE 0)

\* C9: at most one transport request of the conversation is open at any time.
C9_AtMostOneRequestOpen == OpenRequests <= 1

\* C10: once a turn started by Regenerate has completed, the transcript is as
\* long as it was when the button was pressed, its entries before the last are
\* the same, and it ends with an assistant message.
C10_RegenerateReplacesAnswer ==
    (TurnDone /\ regenBase # NoBase) =>
        /\ Len(chat_history) = Len(regenBase)
        /\ Pop(chat_history) = Pop(regenBase)
        /\ Last(chat_history).role = "assistant"

\* the outbound input for a transcript t whose user messages are sent, followed by more
InputOf(t, more) ==
    <<Message("system", <<SystemPrompt>>)>> \o SelectSeq(t, IsUser) \o more

\* C11: when a submission is sent, the outbound input is one system message
\* (the fixed string, first) followed only by user messages: those of the
\* last 10 transcript entries in transcript order, with the current user
\* message exactly once, as the last element.  (The last 10 entries are
\* taken either after or before the current message joins the transcript.)
C11_InputHasCurrentMessageOnce ==
    pc = "stream_post" =>
        \/ messages = InputOf(Recent(chat_history, HistoryWindow), <<>>)
        \/ messages = InputOf(Recent(Pop(chat_history), HistoryWindow),
                              <<Last(chat_history)>>)
====
